---- MODULE Spec2Model ----
(***************************************************************************)
(* Model of src/main.rs: the four stock signals (price_diff, min, max,     *)
(* n_window_sma), the StockSignal implementations that wrap them,          *)
(* fetch_closing_data and the per-symbol loop of main.                     *)
(*                                                                         *)
(* Numbers.  An f64 price is modelled as an exact fraction n/d in lowest   *)
(* terms (d > 0): the arithmetic is that of the code without its rounding. *)
(* Prices come out of the provider's JSON and are finite, so NaN and the   *)
(* infinities are no values of the model.  f64::MAX and f64::MIN, the      *)
(* seeds of the two folds, lie beyond every price drawn here; they are     *)
(* the formal fractions 1/0 and -1/0, which the cross-multiplied           *)
(* comparison FLe orders above and below every finite fraction.            *)
(*                                                                         *)
(* Three specifications:                                                   *)
(*   Spec        main: header, then per symbol retrieval and row           *)
(*   SignalSpec  a caller of StockSignal::calculate on one series, the     *)
(*               four signals taken in any order                           *)
(*   FetchSpec   fetch_closing_data on one provider response               *)
(***************************************************************************)
EXTENDS Integers, Sequences, FiniteSets, TLC

VARIABLES
    \* main
    symbols,      \* opts.symbols.split(','): the requested symbols, in order
    pc,           \* position of main: "start", "fetch", "row", "done"
    idx,          \* 1-based position of the for loop in symbols
    closes,       \* the series bound by `let closes = ...?`
    stdout,       \* the lines printed so far
    exit,         \* "running", "ok" (Ok(())) or "err" (the ? returned Err)
    retrieved,    \* log: one record per call of fetch_closing_data
    \* a caller of StockSignal::calculate
    series,       \* the slice handed to every calculate
    series0,      \* the caller's data when the calls began
    window_size,  \* WindowedSMA.window_size
    done,         \* the signals whose calculate has returned
    res_diff,     \* Option<(f64, f64)>
    res_min,      \* Option<f64>
    res_max,      \* Option<f64>
    res_sma,      \* Option<Vec<f64>>
    \* fetch_closing_data alone
    response,     \* what the provider answers
    fetch_pc,     \* "call" or "returned"
    fetch_res     \* std::io::Result<Vec<f64>>

main_vars   == <<symbols, pc, idx, closes, stdout, exit, retrieved>>
signal_vars == <<series, series0, window_size, done, res_diff, res_min, res_max, res_sma>>
fetch_vars  == <<response, fetch_pc, fetch_res>>
vars        == <<main_vars, signal_vars, fetch_vars>>

(***************************************************************************)
(* Bounds of the model.                                                    *)
(***************************************************************************)
MaxPrice   == 2    \* prices of a series are the integers -1..MaxPrice
MaxLen     == 4    \* a series handed to calculate has at most MaxLen prices
MaxWindow  == 4    \* window sizes 0..MaxWindow
MaxSymbols == 2    \* main is asked for 1..MaxSymbols symbols
MaxShort   == 2    \* main: short quote histories have 0..MaxShort quotes
MaxOver    == 1    \* main: long ones have SmaWindow-1 .. SmaWindow+MaxOver
MaxQuotes  == 3    \* fetch_closing_data alone: at most MaxQuotes quotes
MaxTs      == 2    \* fetch_closing_data alone: timestamps 1..MaxTs
MaxAdj     == 1    \* fetch_closing_data alone: adjusted closes 0..MaxAdj

SmaWindow  == 30   \* n_window_sma(30, &closes)

(***************************************************************************)
(* f64 as exact fractions.                                                 *)
(***************************************************************************)
Abs(x) == IF x < 0 THEN -x ELSE x

RECURSIVE GCD(_, _)
GCD(a, b) == IF b = 0 THEN a ELSE GCD(b, a % b)

\* n/d with d > 0, in lowest terms
Norm(n, d) == LET g == GCD(Abs(n), d) IN [n |-> n \div g, d |-> d \div g]

FromInt(i) == [n |-> i, d |-> 1]

Zero == FromInt(0)
One  == FromInt(1)

F64_MAX == [n |-> 1, d |-> 0]
F64_MIN == [n |-> -1, d |-> 0]

FAdd(a, b) == Norm(a.n * b.d + b.n * a.d, a.d * b.d)
FSub(a, b) == Norm(a.n * b.d - b.n * a.d, a.d * b.d)
FMul(a, b) == Norm(a.n * b.n, a.d * b.d)
\* b is never zero where the code divides
FDiv(a, b) == IF b.n < 0 THEN Norm(-(a.n * b.d), a.d * (-b.n))
                         ELSE Norm(a.n * b.d, a.d * b.n)
FLe(a, b)  == a.n * b.d <= b.n * a.d
\* f64::max and f64::min
FMax(a, b) == IF FLe(b, a) THEN a ELSE b
FMin(a, b) == IF FLe(a, b) THEN a ELSE b

(***************************************************************************)
(* Option and io::Result.                                                  *)
(***************************************************************************)
None      == [some |-> FALSE]
Some(v)   == [some |-> TRUE, val |-> v]
Unwrap(o) == o.val
UnwrapOr(o, dflt) == IF o.some THEN o.val ELSE dflt

Ok(v)  == [ok |-> TRUE, val |-> v]
Err    == [ok |-> FALSE, kind |-> "InvalidData"]

First(s) == s[1]
Last(s)  == s[Len(s)]

(***************************************************************************)
(* The signals.                                                            *)
(***************************************************************************)
\* price_diff with the relative difference taken against the last price
price_diff_rel_last(a) ==
    IF a # <<>>
    THEN LET first    == First(a)
             last     == Last(a)
             abs_diff == FSub(last, first)
             denom    == IF last = Zero THEN One ELSE last
             rel_diff == FDiv(abs_diff, denom)
         IN  Some(<<abs_diff, rel_diff>>)
    ELSE None

price_diff(a) ==
    IF a # <<>>
    THEN LET first    == First(a)
             last     == Last(a)
             abs_diff == FSub(last, first)
             denom    == IF first = Zero THEN One ELSE first
             rel_diff == FDiv(abs_diff, denom)
         IN  Some(<<abs_diff, rel_diff>>)
    ELSE None

\* windows(n) without the last window
Windows_short(n, s) ==
    [i \in 1..(IF Len(s) >= n THEN Len(s) - n ELSE 0) |-> SubSeq(s, i, i + n - 1)]

\* slice::windows(n), n > 0
Windows(n, s) ==
    [i \in 1..(IF Len(s) >= n THEN Len(s) - n + 1 ELSE 0) |-> SubSeq(s, i, i + n - 1)]

\* iter().fold(init, f), f applied to the elements from left to right, for
\* f = + (FoldAdd), f64::max (FoldMax) and f64::min (FoldMin).  A fold over s
\* is the fold over its second half seeded with the fold over its first half;
\* the test left = left has TLC evaluate the first half before it descends
\* into the second, which keeps the evaluation shallow.
RECURSIVE FoldAdd(_, _)
FoldAdd(init, s) ==
    IF s = <<>> THEN init
    ELSE IF Len(s) = 1 THEN FAdd(init, s[1])
    ELSE LET h    == Len(s) \div 2
             left == FoldAdd(init, SubSeq(s, 1, h))
         IN  IF left = left THEN FoldAdd(left, SubSeq(s, h + 1, Len(s))) ELSE left

RECURSIVE FoldMax(_, _)
FoldMax(init, s) ==
    IF s = <<>> THEN init
    ELSE IF Len(s) = 1 THEN FMax(init, s[1])
    ELSE LET h    == Len(s) \div 2
             left == FoldMax(init, SubSeq(s, 1, h))
         IN  IF left = left THEN FoldMax(left, SubSeq(s, h + 1, Len(s))) ELSE left

RECURSIVE FoldMin(_, _)
FoldMin(init, s) ==
    IF s = <<>> THEN init
    ELSE IF Len(s) = 1 THEN FMin(init, s[1])
    ELSE LET h    == Len(s) \div 2
             left == FoldMin(init, SubSeq(s, 1, h))
         IN  IF left = left THEN FoldMin(left, SubSeq(s, h + 1, Len(s))) ELSE left

\* w.iter().sum::<f64>()
Sum(w) == FoldAdd(Zero, w)

WindowMean(w) == FDiv(Sum(w), FromInt(Len(w)))

\* n_window_sma that takes a window of one element
n_window_sma_from_one(n, s) ==
    IF s # <<>> /\ n > 0
    THEN LET ws == Windows(n, s)
         IN  Some([i \in 1..Len(ws) |-> WindowMean(ws[i])])
    ELSE None

n_window_sma(n, s) ==
    IF s # <<>> /\ n > 1
    THEN LET ws == Windows(n, s)
         IN  Some([i \in 1..Len(ws) |-> WindowMean(ws[i])])
    ELSE None

\* max without the test for the empty series
max_unchecked(s) == Some(FoldMax(F64_MIN, s))

max(s) == IF s = <<>> THEN None ELSE Some(FoldMax(F64_MIN, s))

\* min with the fold seeded with 0.0
min_seed_zero(s) == IF s = <<>> THEN None ELSE Some(FoldMin(Zero, s))

min(s) == IF s = <<>> THEN None ELSE Some(FoldMin(F64_MAX, s))

(***************************************************************************)
(* fetch_closing_data.  A response of the provider is a failure of         *)
(* get_quote_history, a failure of quotes(), or a list of quotes in the    *)
(* provider's order.                                                       *)
(***************************************************************************)
Quote(ts, price) == [timestamp |-> ts, adjclose |-> price]

HistoryErr   == [kind |-> "history_err", quotes |-> <<>>]
QuotesErr    == [kind |-> "quotes_err", quotes |-> <<>>]
QuotesOk(qs) == [kind |-> "ok", quotes |-> qs]

\* quotes.sort_by_cached_key(|k| k.timestamp): a stable sort.  The place of
\* qs[i] in the result: after every quote with a smaller key and after the
\* earlier quotes with the same key.
Place(qs, i) ==
    1 + Cardinality({j \in 1..Len(qs) :
            \/ qs[j].timestamp < qs[i].timestamp
            \/ qs[j].timestamp = qs[i].timestamp /\ j < i})

SortByTimestamp(qs) ==
    [p \in 1..Len(qs) |-> qs[CHOOSE i \in 1..Len(qs) : Place(qs, i) = p]]

AdjCloses(qs) == [i \in 1..Len(qs) |-> qs[i].adjclose]

\* fetch_closing_data without the sort
fetch_closing_data_unsorted(r) ==
    IF r.kind = "history_err" THEN Err
    ELSE IF r.kind = "quotes_err" THEN Err
    ELSE IF r.quotes # <<>> THEN Ok(AdjCloses(r.quotes))
    ELSE Ok(<<>>)

fetch_closing_data(r) ==
    IF r.kind = "history_err" THEN Err
    ELSE IF r.kind = "quotes_err" THEN Err
    ELSE IF r.quotes # <<>> THEN Ok(AdjCloses(SortByTimestamp(r.quotes)))
    ELSE Ok(<<>>)

(***************************************************************************)
(* main.                                                                   *)
(***************************************************************************)
SymbolNames == {"AAPL", "MSFT"}

Header == [kind |-> "header", text |-> "period start,symbol,price,change %,min,max,30d avg"]

\* the row with the first moving average in place of the last
AssembleRow_first_avg(symbol, c, period_max, period_min, diff, sma) ==
    LET last_price == IF c # <<>> THEN Last(c) ELSE Zero
        pct_change == UnwrapOr(diff, <<Zero, Zero>>)[2]
        averages   == UnwrapOr(sma, <<>>)
    IN  [kind   |-> "row",
         symbol |-> symbol,
         price  |-> last_price,
         change |-> FMul(pct_change, FromInt(100)),
         min    |-> Unwrap(period_min),
         max    |-> Unwrap(period_max),
         avg    |-> IF averages # <<>> THEN First(averages) ELSE Zero]

\* the arguments of the row's println!, before formatting
AssembleRow(symbol, c, period_max, period_min, diff, sma) ==
    LET last_price == IF c # <<>> THEN Last(c) ELSE Zero
        pct_change == UnwrapOr(diff, <<Zero, Zero>>)[2]
        averages   == UnwrapOr(sma, <<>>)
    IN  [kind   |-> "row",
         symbol |-> symbol,
         price  |-> last_price,
         change |-> FMul(pct_change, FromInt(100)),
         min    |-> Unwrap(period_min),
         max    |-> Unwrap(period_max),
         avg    |-> IF averages # <<>> THEN Last(averages) ELSE Zero]

\* the body of `if !closes.is_empty()`: the four signals, then the row
Row(symbol, c) ==
    AssembleRow(symbol, c, max(c), min(c), price_diff(c), n_window_sma(SmaWindow, c))

\* the price the provider reports for timestamp t in the histories main is fed
PriceAt(t, base) == FromInt(((t * t + base) % 7) - 1)

\* a history of len quotes with timestamps 1..len, in the provider's order
History(len, order, base) ==
    [i \in 1..len |->
        LET t == IF order = "asc" THEN i
                 ELSE IF order = "desc" THEN len + 1 - i
                 ELSE ((i + 1) % len) + 1
        IN  Quote(t, PriceAt(t, base))]

\* the shifts of the price pattern: the first price is 0 or 1
PatternShifts == {0, 1}

HistoryLens == (0..MaxShort) \cup ((SmaWindow - 1)..(SmaWindow + MaxOver))

MainResponses ==
    {HistoryErr, QuotesErr}
        \cup {QuotesOk(History(len, order, base)) :
                len \in HistoryLens, order \in {"asc", "desc", "rot"}, base \in PatternShifts}

\* every response main may get, with what fetch_closing_data makes of it
MainFetches == {[response |-> r, result |-> fetch_closing_data(r)] : r \in MainResponses}

SymbolLists == UNION {[1..k -> SymbolNames] : k \in 1..MaxSymbols}

MainInit ==
    /\ symbols \in SymbolLists
    /\ pc = "start"
    /\ idx = 1
    /\ closes = <<>>
    /\ stdout = <<>>
    /\ exit = "running"
    /\ retrieved = <<>>

\* println!("period start,symbol,...") before the loop
PrintHeader ==
    /\ pc = "start"
    /\ stdout' = Append(stdout, Header)
    /\ pc' = "fetch"
    /\ UNCHANGED <<symbols, idx, closes, exit, retrieved>>

\* fetch_closing_data(...).await? returned Ok
FetchOk ==
    /\ pc = "fetch"
    /\ idx <= Len(symbols)
    /\ \E f \in MainFetches :
        /\ f.result.ok
        /\ closes' = f.result.val
        /\ retrieved' = Append(retrieved, [symbol |-> symbols[idx], result |-> f.result])
    /\ pc' = "row"
    /\ UNCHANGED <<symbols, idx, stdout, exit>>

\* a failed retrieval that is skipped: the loop goes on to the next symbol
FetchErr_skips ==
    /\ pc = "fetch"
    /\ idx <= Len(symbols)
    /\ \E f \in MainFetches :
        /\ ~f.result.ok
        /\ retrieved' = Append(retrieved, [symbol |-> symbols[idx], result |-> f.result])
    /\ idx' = idx + 1
    /\ UNCHANGED <<symbols, pc, closes, stdout, exit>>

\* fetch_closing_data(...).await? returned Err: main returns it
FetchErr ==
    /\ pc = "fetch"
    /\ idx <= Len(symbols)
    /\ \E f \in MainFetches :
        /\ ~f.result.ok
        /\ retrieved' = Append(retrieved, [symbol |-> symbols[idx], result |-> f.result])
    /\ pc' = "done"
    /\ exit' = "err"
    /\ UNCHANGED <<symbols, idx, closes, stdout>>

\* if !closes.is_empty() { ...; println!(...) }
EmitRow ==
    /\ pc = "row"
    /\ closes # <<>>
    /\ stdout' = Append(stdout, Row(symbols[idx], closes))
    /\ idx' = idx + 1
    /\ pc' = "fetch"
    /\ UNCHANGED <<symbols, closes, exit, retrieved>>

\* an empty series that prints a row of defaults
SkipEmpty_placeholder ==
    /\ pc = "row"
    /\ closes = <<>>
    /\ stdout' = Append(stdout, AssembleRow(symbols[idx], closes, Some(Zero), Some(Zero), None, None))
    /\ idx' = idx + 1
    /\ pc' = "fetch"
    /\ UNCHANGED <<symbols, closes, exit, retrieved>>

\* closes.is_empty(): the body of the if is skipped
SkipEmpty ==
    /\ pc = "row"
    /\ closes = <<>>
    /\ idx' = idx + 1
    /\ pc' = "fetch"
    /\ UNCHANGED <<symbols, closes, stdout, exit, retrieved>>

\* the loop is over: Ok(())
Finish ==
    /\ pc = "fetch"
    /\ idx > Len(symbols)
    /\ pc' = "done"
    /\ exit' = "ok"
    /\ UNCHANGED <<symbols, idx, closes, stdout, retrieved>>

SignalIdle ==
    /\ series = <<>>
    /\ series0 = <<>>
    /\ window_size = 0
    /\ done = {}
    /\ res_diff = None
    /\ res_min = None
    /\ res_max = None
    /\ res_sma = None

FetchIdle ==
    /\ response = HistoryErr
    /\ fetch_pc = "returned"
    /\ fetch_res = Err

MainIdle ==
    /\ symbols = <<>>
    /\ pc = "done"
    /\ idx = 1
    /\ closes = <<>>
    /\ stdout = <<>>
    /\ exit = "ok"
    /\ retrieved = <<>>

Init == MainInit /\ SignalIdle /\ FetchIdle

Next ==
    \/ PrintHeader /\ UNCHANGED <<signal_vars, fetch_vars>>
    \/ FetchOk /\ UNCHANGED <<signal_vars, fetch_vars>>
    \/ FetchErr /\ UNCHANGED <<signal_vars, fetch_vars>>
    \/ EmitRow /\ UNCHANGED <<signal_vars, fetch_vars>>
    \/ SkipEmpty /\ UNCHANGED <<signal_vars, fetch_vars>>
    \/ Finish /\ UNCHANGED <<signal_vars, fetch_vars>>

Spec == Init /\ [][Next]_vars

(***************************************************************************)
(* A caller of StockSignal::calculate: one series, borrowed by each of the *)
(* four signals, which are run in any order.                               *)
(***************************************************************************)
Prices == {FromInt(i) : i \in -1..MaxPrice}

AllSeries == UNION {[1..k -> Prices] : k \in 0..MaxLen}

SignalInit ==
    /\ series0 \in AllSeries
    /\ series = series0
    /\ window_size \in 0..MaxWindow
    /\ done = {}
    /\ res_diff = None
    /\ res_min = None
    /\ res_max = None
    /\ res_sma = None

\* PriceDifference.calculate(&series)
CalculatePriceDifference ==
    /\ "diff" \notin done
    /\ res_diff' = price_diff(series)
    /\ done' = done \cup {"diff"}
    /\ UNCHANGED <<series, series0, window_size, res_min, res_max, res_sma>>

\* s in ascending order
SortAscending(s) ==
    LET place(i) == 1 + Cardinality({j \in 1..Len(s) :
                            \/ ~FLe(s[i], s[j])
                            \/ s[j] = s[i] /\ j < i})
    IN  [p \in 1..Len(s) |-> s[CHOOSE i \in 1..Len(s) : place(i) = p]]

\* MinPrice that sorts the caller's series in place to read the minimum off it
CalculateMinPrice_sorting ==
    /\ "min" \notin done
    /\ series' = SortAscending(series)
    /\ res_min' = IF series = <<>> THEN None ELSE Some(First(series'))
    /\ done' = done \cup {"min"}
    /\ UNCHANGED <<series0, window_size, res_diff, res_max, res_sma>>

\* MinPrice.calculate(&series)
CalculateMinPrice ==
    /\ "min" \notin done
    /\ res_min' = min(series)
    /\ done' = done \cup {"min"}
    /\ UNCHANGED <<series, series0, window_size, res_diff, res_max, res_sma>>

\* MaxPrice.calculate(&series)
CalculateMaxPrice ==
    /\ "max" \notin done
    /\ res_max' = max(series)
    /\ done' = done \cup {"max"}
    /\ UNCHANGED <<series, series0, window_size, res_diff, res_min, res_sma>>

\* WindowedSMA { window_size }.calculate(&series)
CalculateWindowedSMA ==
    /\ "sma" \notin done
    /\ res_sma' = n_window_sma(window_size, series)
    /\ done' = done \cup {"sma"}
    /\ UNCHANGED <<series, series0, window_size, res_diff, res_min, res_max>>

SignalNext ==
    \/ CalculatePriceDifference /\ UNCHANGED <<main_vars, fetch_vars>>
    \/ CalculateMinPrice /\ UNCHANGED <<main_vars, fetch_vars>>
    \/ CalculateMaxPrice /\ UNCHANGED <<main_vars, fetch_vars>>
    \/ CalculateWindowedSMA /\ UNCHANGED <<main_vars, fetch_vars>>

SignalSpecInit == MainIdle /\ SignalInit /\ FetchIdle

SignalSpec == SignalSpecInit /\ [][SignalNext]_vars

(***************************************************************************)
(* fetch_closing_data on one response of the provider.                     *)
(***************************************************************************)
FetchQuotes == {Quote(ts, FromInt(p)) : ts \in 1..MaxTs, p \in 0..MaxAdj}

FetchResponses ==
    {HistoryErr, QuotesErr}
        \cup {QuotesOk(qs) : qs \in UNION {[1..k -> FetchQuotes] : k \in 0..MaxQuotes}}

FetchInit ==
    /\ response \in FetchResponses
    /\ fetch_pc = "call"
    /\ fetch_res = Err

FetchReturn ==
    /\ fetch_pc = "call"
    /\ fetch_res' = fetch_closing_data(response)
    /\ fetch_pc' = "returned"
    /\ UNCHANGED response

FetchNext == FetchReturn /\ UNCHANGED <<main_vars, signal_vars>>

FetchSpecInit == MainIdle /\ SignalIdle /\ FetchInit

FetchSpec == FetchSpecInit /\ [][FetchNext]_vars

(***************************************************************************)
(* Helpers of the properties.                                              *)
(***************************************************************************)
\* s[a] + ... + s[b], exactly
RECURSIVE SumFromTo(_, _, _)
SumFromTo(s, a, b) ==
    IF a > b THEN Zero
    ELSE IF a = b THEN s[a]
    ELSE LET m == (a + b) \div 2
         IN  FAdd(SumFromTo(s, a, m), SumFromTo(s, m + 1, b))

\* v is the least (greatest) element of the non-empty s
IsMinimumOf(v, s) == (\E i \in 1..Len(s) : s[i] = v) /\ (\A i \in 1..Len(s) : FLe(v, s[i]))
IsMaximumOf(v, s) == (\E i \in 1..Len(s) : s[i] = v) /\ (\A i \in 1..Len(s) : FLe(s[i], v))

\* d is (last - first, (last - first) / denom) for the non-empty s
IsDifferenceOf(d, s) ==
    LET denom == IF First(s) = Zero THEN One ELSE First(s)
    IN  /\ FAdd(d[1], First(s)) = Last(s)
        /\ FMul(d[2], denom) = d[1]

\* the rows main owes for the first k retrievals, all of them successful
RECURSIVE RowsUpTo(_)
RowsUpTo(k) ==
    IF k = 0 THEN <<>>
    ELSE RowsUpTo(k - 1) \o
            (IF retrieved[k].result.val # <<>>
             THEN <<Row(retrieved[k].symbol, retrieved[k].result.val)>>
             ELSE <<>>)

AllRetrievalsOk == \A k \in 1..Len(retrieved) : retrieved[k].result.ok

\* the first k retrievals that gave a non-empty series, in order
RECURSIVE SeriesUpTo(_)
SeriesUpTo(k) ==
    IF k = 0 THEN <<>>
    ELSE SeriesUpTo(k - 1) \o
            (IF retrieved[k].result.ok /\ retrieved[k].result.val # <<>>
             THEN <<[symbol |-> retrieved[k].symbol, series |-> retrieved[k].result.val]>>
             ELSE <<>>)

(***************************************************************************)
(* C1: for a non-empty series, PriceDifference returns (absolute,          *)
(* relative) with absolute = last - first and relative = absolute / denom, *)
(* denom being first unless first is 0, when it is 1; the result is that   *)
(* of the two-element series <<first, last>>, and (0, 0) for a series of   *)
(* one element.                                                            *)
(***************************************************************************)
C1_PriceDifference ==
    ("diff" \in done /\ series0 # <<>>) =>
        /\ res_diff.some
        /\ IsDifferenceOf(res_diff.val, series0)
        /\ res_diff = price_diff(<<First(series0), Last(series0)>>)
        /\ Len(series0) = 1 => res_diff.val = <<Zero, Zero>>

C1_Witness ==
    /\ "diff" \in done
    /\ Len(series0) >= 3
    /\ First(series0) = Zero
    /\ Last(series0) # Zero
    /\ series0[2] \notin {First(series0), Last(series0)}
    /\ res_diff.val = <<Last(series0), Last(series0)>>

(***************************************************************************)
(* C2: for a non-empty series, MinPrice and MaxPrice are elements of the   *)
(* series and every element lies between them.                             *)
(***************************************************************************)
C2_MinMax ==
    /\ ("min" \in done /\ series0 # <<>>) =>
            res_min.some /\ IsMinimumOf(res_min.val, series0)
    /\ ("max" \in done /\ series0 # <<>>) =>
            res_max.some /\ IsMaximumOf(res_max.val, series0)

C2_Witness ==
    /\ {"min", "max"} \subseteq done
    /\ Len(series0) >= 3
    /\ res_min.val = FromInt(-1)
    /\ res_max.val = FromInt(MaxPrice)
    /\ First(series0) \notin {res_min.val, res_max.val}

(***************************************************************************)
(* C3: PriceDifference, MinPrice and MaxPrice each return None if and only *)
(* if the series is empty.                                                 *)
(***************************************************************************)
C3_AbsentIffEmpty ==
    /\ "diff" \in done => (res_diff = None <=> series0 = <<>>)
    /\ "min" \in done => (res_min = None <=> series0 = <<>>)
    /\ "max" \in done => (res_max = None <=> series0 = <<>>)

C3_Witness ==
    /\ {"diff", "min", "max"} \subseteq done
    /\ series0 = <<>>
    /\ res_diff = None /\ res_min = None /\ res_max = None

(***************************************************************************)
(* C4: WindowedSMA(n, S) is None exactly when n <= 1 or S is empty; for    *)
(* n > 1 and S non-empty with n >= len(S) + 1 it is the empty sequence.    *)
(***************************************************************************)
C4_SmaAbsent ==
    "sma" \in done =>
        /\ res_sma = None <=> (window_size <= 1 \/ series0 = <<>>)
        /\ (window_size > 1 /\ series0 # <<>> /\ window_size >= Len(series0) + 1)
                => res_sma = Some(<<>>)

C4_Witness ==
    /\ "sma" \in done
    /\ series0 # <<>>
    /\ window_size > Len(series0)
    /\ res_sma = Some(<<>>)

(***************************************************************************)
(* C5: for n > 1 and a non-empty S, WindowedSMA(n, S) has                  *)
(* max(0, len(S) - n + 1) elements and its element i is the mean of the n  *)
(* elements of S that start at i.                                          *)
(***************************************************************************)
C5_SmaMeans ==
    ("sma" \in done /\ window_size > 1 /\ series0 # <<>>) =>
        /\ res_sma.some
        /\ Len(res_sma.val) =
                IF Len(series0) - window_size + 1 > 0
                THEN Len(series0) - window_size + 1 ELSE 0
        /\ \A i \in 1..Len(res_sma.val) :
                FMul(res_sma.val[i], FromInt(window_size))
                    = SumFromTo(series0, i, i + window_size - 1)

C5_Witness ==
    /\ "sma" \in done
    /\ window_size > 2
    /\ Len(series0) > window_size
    /\ res_sma.some
    /\ Len(res_sma.val) >= 2
    /\ res_sma.val[1] # res_sma.val[2]
    /\ res_sma.val[1].d # 1

(***************************************************************************)
(* C6: when every retrieval has succeeded, the rows printed are those of   *)
(* the requested symbols whose series is not empty, in request order, one  *)
(* each; a symbol with an empty series adds nothing and changes no other   *)
(* row.                                                                    *)
(***************************************************************************)
C6_RowsInRequestOrder ==
    (AllRetrievalsOk /\ pc # "start") =>
        /\ \A k \in 1..Len(retrieved) : retrieved[k].symbol = symbols[k]
        /\ stdout = <<Header>> \o RowsUpTo(idx - 1)
        /\ exit = "ok" => idx - 1 = Len(symbols) /\ Len(retrieved) = Len(symbols)

C6_Witness ==
    /\ exit = "ok"
    /\ Len(symbols) >= 2
    /\ retrieved[1].result.val = <<>>
    /\ retrieved[2].result.val # <<>>
    /\ Len(stdout) = Len(symbols)
    /\ stdout[2].symbol = symbols[2]

(***************************************************************************)
(* C7: a failed retrieval for the k-th symbol ends the run with an error   *)
(* there: nothing is retrieved or printed for the k-th or a later symbol,  *)
(* the header and the rows of the earlier symbols stay printed; the header *)
(* is printed before anything is retrieved.                                *)
(***************************************************************************)
C7_FailureAborts ==
    /\ pc = "start" => retrieved = <<>> /\ stdout = <<>>
    /\ pc # "start" => stdout # <<>> /\ stdout[1] = Header
    /\ \A k \in 1..Len(retrieved) :
            ~retrieved[k].result.ok =>
                /\ k = Len(retrieved)
                /\ exit = "err"
                /\ pc = "done"
                /\ idx = k
                /\ stdout = <<Header>> \o RowsUpTo(k - 1)
                /\ ~ENABLED Next
    /\ exit = "err" => retrieved # <<>> /\ ~Last(retrieved).result.ok

C7_Witness ==
    /\ exit = "err"
    /\ idx = 2
    /\ Len(stdout) = 2
    /\ stdout[2].symbol = symbols[1]

(***************************************************************************)
(* C8: the row of a symbol with the non-empty series S has last(S) as      *)
(* price, 100 times the relative difference as change, the minimum and     *)
(* maximum of S, and as average the mean of the last 30 elements of S, or  *)
(* 0 when S has fewer than 30.                                             *)
(***************************************************************************)
RowIsOf(row, symbol, s) ==
    /\ row.kind = "row"
    /\ row.symbol = symbol
    /\ row.price = Last(s)
    /\ IsDifferenceOf(<<FSub(Last(s), First(s)), FDiv(row.change, FromInt(100))>>, s)
    /\ IsMinimumOf(row.min, s)
    /\ IsMaximumOf(row.max, s)
    /\ row.avg = IF Len(s) >= SmaWindow
                 THEN FDiv(SumFromTo(s, Len(s) - SmaWindow + 1, Len(s)), FromInt(SmaWindow))
                 ELSE Zero

C8_RowValues ==
    LET owed == SeriesUpTo(idx - 1)
    IN  /\ Len(stdout) = (IF pc = "start" THEN 0 ELSE 1) + Len(owed)
        /\ \A j \in 1..Len(owed) :
                RowIsOf(stdout[j + 1], owed[j].symbol, owed[j].series)
        /\ (pc = "fetch" /\ closes # <<>> /\ idx > 1) =>
                RowIsOf(Last(stdout), symbols[idx - 1], closes)

C8_Witness ==
    /\ pc = "fetch"
    /\ idx > 1
    /\ Len(closes) > SmaWindow
    /\ Last(stdout).kind = "row"
    /\ Last(stdout).avg # Zero
    /\ Last(stdout).avg # Last(stdout).price
    /\ Last(stdout).change # Zero

(***************************************************************************)
(* C9: the four signals leave the series as it was and share nothing:      *)
(* whatever the order in which they have run, each result is the one the   *)
(* signal gives on the caller's series, and the row assembled from the     *)
(* four is the row of the sequential order.                                *)
(***************************************************************************)
C9_OrderImmaterial ==
    /\ series = series0
    /\ "diff" \in done => res_diff = price_diff(series0)
    /\ "min" \in done => res_min = min(series0)
    /\ "max" \in done => res_max = max(series0)
    /\ "sma" \in done => res_sma = n_window_sma(window_size, series0)
    /\ (done = {"diff", "min", "max", "sma"} /\ series0 # <<>>) =>
            AssembleRow("AAPL", series, res_max, res_min, res_diff, res_sma)
                = AssembleRow("AAPL", series0, max(series0), min(series0),
                              price_diff(series0), n_window_sma(window_size, series0))

C9_Witness ==
    /\ done = {"diff", "min", "max", "sma"}
    /\ Len(series0) >= 3
    /\ window_size = 2
    /\ res_min.val # First(series0)
    /\ res_max.val # Last(series0)
    /\ \E i \in 1..(Len(series0) - 1) : ~FLe(series0[i], series0[i + 1])

(***************************************************************************)
(* C10: on success fetch_closing_data returns one price per quote, the     *)
(* adjusted closes of the quotes arranged by ascending timestamp whatever  *)
(* the provider's order; no quotes give the empty series, not an error.    *)
(***************************************************************************)
IndexPermutations(n) == {p \in [1..n -> 1..n] : \A i, j \in 1..n : i # j => p[i] # p[j]}

C10_FetchSorted ==
    (fetch_pc = "returned" /\ response.kind = "ok") =>
        LET qs == response.quotes IN
        /\ fetch_res.ok
        /\ Len(fetch_res.val) = Len(qs)
        /\ \E p \in IndexPermutations(Len(qs)) :
                /\ \A i \in 1..Len(qs) : fetch_res.val[i] = qs[p[i]].adjclose
                /\ \A i, j \in 1..Len(qs) :
                        i < j => qs[p[i]].timestamp <= qs[p[j]].timestamp
        /\ qs = <<>> => fetch_res = Ok(<<>>)

C10_Witness ==
    /\ fetch_pc = "returned"
    /\ fetch_res.ok
    /\ Len(response.quotes) >= 3
    /\ response.quotes[1].timestamp > response.quotes[2].timestamp
    /\ response.quotes[1].adjclose # response.quotes[2].adjclose
    /\ fetch_res.val # AdjCloses(response.quotes)

====
